---------------------------- MODULE Spec2Model ----------------------------
(***************************************************************************)
(* Chord detection of whisper-writer (src/src/key_listener.py): KeyChord,  *)
(* KeyListener and the delivery of events by the PynputBackend listener    *)
(* threads.                                                                *)
(*                                                                         *)
(* The specifications share the operators that model the code:             *)
(*   Spec         every call of on_input_event and update_activation_keys  *)
(*                runs to completion before the next one starts (the       *)
(*                behaviour of the code when calls do not overlap);        *)
(*   SpecHistory  Spec with the history of the fired classes kept, on the  *)
(*                presses and releases of fewer keys;                      *)
(*   SpecEmpty    Spec started with a chord definition that is empty;      *)
(*   SpecThreads  the keyboard listener thread, the mouse listener thread  *)
(*                and the thread that reloads the configuration interleave *)
(*                between the statements of the handlers: the code takes   *)
(*                no lock;                                                 *)
(*   SpecBackend  add_callback, start, stop and the callbacks of the       *)
(*                PynputBackend, calls that do not overlap;                *)
(*   SpecStop     the callbacks of the listener threads interleaved with   *)
(*                the statements of one stop() call;                       *)
(*   SpecParse    parse_key_combination on combination strings.            *)
(***************************************************************************)
EXTENDS Integers, Sequences, FiniteSets, TLC

VARIABLES
    config,      \* the three combination strings last read from ConfigManager
    chords,      \* KeyListener.{typing_only,typing_and_clipboard,clipboard_only}_chord
    reloads,     \* number of KeyChord generations built by update_activation_keys
    last,        \* the most recently completed on_input_event call: its event,
                 \* its dictionaries, the _trigger_callbacks calls it made and
                 \* the KeyChord instances (gen) it used
    error,       \* exception that escaped a handler, "none" if none did
    h,           \* SpecThreads: frame of on_input_event on each listener thread
    rl,          \* SpecThreads: frame of update_activation_keys
    delivered,   \* SpecThreads: number of events the listeners delivered
    callbacks,   \* KeyListener.callbacks: the handlers of each callback class,
                 \* in registration order
    backend,     \* the PynputBackend: its listener references, whether its
                 \* key_map exists, and the pynput listeners that are running
    hist,        \* history, kept by the specifications that start with
                 \* Recording: the callback class fired most recently with
                 \* the KeyChord instances of the event that fired it, and
                 \* for each chord whether it has been inactive since its
                 \* activation class last fired
    stopper,     \* SpecStop: position of the thread that calls stop()
    parse        \* SpecParse: one call of parse_key_combination, its argument
                 \* and what it returned and printed

vars == <<config, chords, reloads, last, error, h, rl, delivered,
         parse,
         callbacks, backend,
         stopper,
         hist>>

(***************************************************************************)
(* Bounds                                                                  *)
(***************************************************************************)
\* update_activation_keys is called at most MaxReloads times
MaxReloads == 2

\* SpecThreads: the listener threads deliver at most MaxDelivered events
MaxDelivered == 3

(***************************************************************************)
(* Key identity model                                                      *)
(***************************************************************************)
\* class InputEvent
InputEvent == {"KEY_PRESS", "KEY_RELEASE", "MOUSE_PRESS", "MOUSE_RELEASE"}

\* class KeyCode: the members the modelled configurations and events use
KeyCode ==
    {"CTRL_LEFT", "CTRL_RIGHT", "SHIFT_LEFT", "SHIFT_RIGHT", "ALT_LEFT",
     "ALT_RIGHT", "META_LEFT", "META_RIGHT", "A", "B", "C", "Q", "R", "S",
     "SPACE", "MOUSE_LEFT"}

\* the spelling of each modelled KeyCode member, one string per character
KeyCodeName ==
    [k \in KeyCode |->
        CASE k = "CTRL_LEFT"   -> <<"C","T","R","L","_","L","E","F","T">>
          [] k = "CTRL_RIGHT"  -> <<"C","T","R","L","_","R","I","G","H","T">>
          [] k = "SHIFT_LEFT"  -> <<"S","H","I","F","T","_","L","E","F","T">>
          [] k = "SHIFT_RIGHT" -> <<"S","H","I","F","T","_","R","I","G","H","T">>
          [] k = "ALT_LEFT"    -> <<"A","L","T","_","L","E","F","T">>
          [] k = "ALT_RIGHT"   -> <<"A","L","T","_","R","I","G","H","T">>
          [] k = "META_LEFT"   -> <<"M","E","T","A","_","L","E","F","T">>
          [] k = "META_RIGHT"  -> <<"M","E","T","A","_","R","I","G","H","T">>
          [] k = "SPACE"       -> <<"S","P","A","C","E">>
          [] k = "MOUSE_LEFT"  -> <<"M","O","U","S","E","_","L","E","F","T">>
          [] OTHER             -> <<k>>]

\* the three chord attributes of KeyListener, in the order the code uses them
Slots == <<"typing_only", "typing_and_clipboard", "clipboard_only">>
SlotNames == {Slots[i] : i \in 1..3}

\* keys of KeyListener.callbacks
CallbackClasses ==
    {"on_activate_typing_only", "on_activate_clipboard_only",
     "on_activate_typing_and_clipboard", "on_deactivate"}

(***************************************************************************)
(* Chord elements: a member of KeyChord.keys is a KeyCode or a frozenset   *)
(* of KeyCodes.  Both are records here; frozen tells them apart as         *)
(* isinstance(key, frozenset) does.                                        *)
(***************************************************************************)
Single(k) == [frozen |-> FALSE, ks |-> {k}]
Group(S) == [frozen |-> TRUE, ks |-> S]
KeyOf(e) == CHOOSE k \in e.ks : TRUE

(***************************************************************************)
(* str methods used by parse_key_combination, on strings held as sequences *)
(* of one-character strings                                                *)
(***************************************************************************)
\* str.upper on one character
UpperChar(c) ==
    CASE c = "a" -> "A" [] c = "b" -> "B" [] c = "c" -> "C" [] c = "l" -> "L"
      [] c = "r" -> "R" [] c = "s" -> "S" [] c = "t" -> "T" [] c = "q" -> "Q"
      [] c = "d" -> "D" [] c = "e" -> "E" [] c = "f" -> "F" [] c = "g" -> "G"
      [] c = "h" -> "H" [] c = "i" -> "I" [] c = "j" -> "J" [] c = "k" -> "K"
      [] c = "m" -> "M" [] c = "n" -> "N" [] c = "o" -> "O" [] c = "p" -> "P"
      [] c = "u" -> "U" [] c = "v" -> "V" [] c = "w" -> "W" [] c = "x" -> "X"
      [] c = "y" -> "Y" [] c = "z" -> "Z"
      [] OTHER -> c

\* str.upper
upper(s) == [i \in 1..Len(s) |-> UpperChar(s[i])]

\* str.split('+'): the pieces between the separators, empty pieces kept
RECURSIVE split(_)
split(s) ==
    IF \A i \in 1..Len(s) : s[i] # "+"
    THEN <<s>>
    ELSE LET p == CHOOSE i \in 1..Len(s) :
                      s[i] = "+" /\ \A j \in 1..(i - 1) : s[j] # "+"
         IN <<SubSeq(s, 1, p - 1)>> \o split(SubSeq(s, p + 1, Len(s)))

\* str.strip: leading and trailing whitespace removed
RECURSIVE strip(_)
strip(s) ==
    IF s = <<>> THEN s
    ELSE IF s[1] = " " THEN strip(Tail(s))
    ELSE IF s[Len(s)] = " " THEN strip(SubSeq(s, 1, Len(s) - 1))
    ELSE s

\* key_map of parse_key_combination
ModifierNames ==
    {<<"C","T","R","L">>, <<"S","H","I","F","T">>, <<"A","L","T">>,
     <<"M","E","T","A">>}

key_map(name) ==
    CASE name = <<"C","T","R","L">>     -> Group({"CTRL_LEFT", "CTRL_RIGHT"})
      [] name = <<"S","H","I","F","T">> -> Group({"SHIFT_LEFT", "SHIFT_RIGHT"})
      [] name = <<"A","L","T">>         -> Group({"ALT_LEFT", "ALT_RIGHT"})
      [] name = <<"M","E","T","A">>     -> Group({"META_LEFT", "META_RIGHT"})

\* a loop that stops at the first token KeyCode does not name
RECURSIVE parse_tokens_abort(_)
parse_tokens_abort(tokens) ==
    IF tokens = <<>> THEN {}
    ELSE LET key == strip(Head(tokens))
         IN IF key \in ModifierNames
            THEN {key_map(key)} \cup parse_tokens_abort(Tail(tokens))
            ELSE IF \E k \in KeyCode : KeyCodeName[k] = key
            THEN {Single(CHOOSE k \in KeyCode : KeyCodeName[k] = key)}
                     \cup parse_tokens_abort(Tail(tokens))
            ELSE {}

\* the keys one token adds: its modifier group, the KeyCode of that name, or
\* nothing when KeyCode[key] raises KeyError (the token is printed and skipped)
RECURSIVE parse_tokens(_)
parse_tokens(tokens) ==
    IF tokens = <<>> THEN {}
    ELSE LET key == strip(Head(tokens))
             rest == parse_tokens(Tail(tokens))
         IN IF key \in ModifierNames
            THEN {key_map(key)} \cup rest
            ELSE IF \E k \in KeyCode : KeyCodeName[k] = key
            THEN {Single(CHOOSE k \in KeyCode : KeyCodeName[k] = key)} \cup rest
            ELSE rest

\* KeyListener.parse_key_combination
parse_key_combination(combination_string) ==
    parse_tokens(split(upper(combination_string)))

\* what parse_key_combination prints: the keys of the tokens for which
\* KeyCode[key] raised KeyError, in the order of the loop
RECURSIVE print_unknown(_)
print_unknown(tokens) ==
    IF tokens = <<>> THEN <<>>
    ELSE LET key == strip(Head(tokens))
         IN IF key \in ModifierNames \/ \E k \in KeyCode : KeyCodeName[k] = key
            THEN print_unknown(Tail(tokens))
            ELSE <<key>> \o print_unknown(Tail(tokens))

(***************************************************************************)
(* KeyChord                                                                *)
(***************************************************************************)
\* KeyChord.__init__; gen numbers the instances (object identity)
KeyChord(keys, gen) == [keys |-> keys, pressed_keys |-> {}, gen |-> gen]

\* is_active with all() in place of any() for a frozenset element
RECURSIVE is_active_all(_, _)
is_active_all(keys, pressed_keys) ==
    IF keys = {} THEN TRUE
    ELSE LET key == CHOOSE e \in keys : TRUE
         IN IF key.frozen
            THEN IF ~(\A k \in key.ks : k \in pressed_keys)
                 THEN FALSE
                 ELSE is_active_all(keys \ {key}, pressed_keys)
            ELSE IF KeyOf(key) \notin pressed_keys
                 THEN FALSE
                 ELSE is_active_all(keys \ {key}, pressed_keys)

\* the loop of KeyChord.is_active over self.keys, with its early returns
RECURSIVE is_active_loop(_, _)
is_active_loop(keys, pressed_keys) ==
    IF keys = {} THEN TRUE
    ELSE LET key == CHOOSE e \in keys : TRUE
         IN IF key.frozen
            THEN IF ~(\E k \in key.ks : k \in pressed_keys)
                 THEN FALSE
                 ELSE is_active_loop(keys \ {key}, pressed_keys)
            ELSE IF KeyOf(key) \notin pressed_keys
                 THEN FALSE
                 ELSE is_active_loop(keys \ {key}, pressed_keys)

\* is_active that wants at least one key in the chord
is_active_nonempty(chord) ==
    chord.keys # {} /\ is_active_loop(chord.keys, chord.pressed_keys)

\* KeyChord.is_active
is_active(chord) == is_active_loop(chord.keys, chord.pressed_keys)

\* update with set.remove in place of set.discard: KeyError for an absent key
update_remove(chord, key, event_type) ==
    IF event_type = "KEY_PRESS"
    THEN [chord |-> [chord EXCEPT !.pressed_keys = @ \cup {key}], raised |-> "none"]
    ELSE IF event_type = "KEY_RELEASE"
    THEN IF key \in chord.pressed_keys
         THEN [chord |-> [chord EXCEPT !.pressed_keys = @ \ {key}], raised |-> "none"]
         ELSE [chord |-> chord, raised |-> "KeyError"]
    ELSE [chord |-> chord, raised |-> "none"]

\* update that adds the key whatever the event type is
update_always_add(chord, key, event_type) ==
    [chord |-> [chord EXCEPT !.pressed_keys = @ \cup {key}], raised |-> "none"]

\* update with the two branches exchanged: a press discards, a release adds
update_swapped(chord, key, event_type) ==
    IF event_type = "KEY_PRESS"
    THEN [chord |-> [chord EXCEPT !.pressed_keys = @ \ {key}], raised |-> "none"]
    ELSE IF event_type = "KEY_RELEASE"
    THEN [chord |-> [chord EXCEPT !.pressed_keys = @ \cup {key}], raised |-> "none"]
    ELSE [chord |-> chord, raised |-> "none"]

\* update that records only the keys the definition of the chord mentions
update_relevant_only(chord, key, event_type) ==
    IF \A e \in chord.keys : key \notin e.ks
    THEN [chord |-> chord, raised |-> "none"]
    ELSE IF event_type = "KEY_PRESS"
    THEN [chord |-> [chord EXCEPT !.pressed_keys = @ \cup {key}], raised |-> "none"]
    ELSE IF event_type = "KEY_RELEASE"
    THEN [chord |-> [chord EXCEPT !.pressed_keys = @ \ {key}], raised |-> "none"]
    ELSE [chord |-> chord, raised |-> "none"]

\* KeyChord.update: the chord after the call and the exception it raised;
\* its return value is is_active of the chord after the call
update(chord, key, event_type) ==
    IF event_type = "KEY_PRESS"
    THEN [chord |-> [chord EXCEPT !.pressed_keys = @ \cup {key}], raised |-> "none"]
    ELSE IF event_type = "KEY_RELEASE"
    THEN [chord |-> [chord EXCEPT !.pressed_keys = @ \ {key}], raised |-> "none"]
    ELSE [chord |-> chord, raised |-> "none"]


(***************************************************************************)
(* KeyListener                                                             *)
(***************************************************************************)
\* set_activation_keys with the pressed sets of the old chords carried over
set_activation_keys_keep_pressed(old, typing_only_keys, typing_and_clipboard_keys, clipboard_only_keys, gen) ==
    [s \in SlotNames |->
        [keys |-> CASE s = "typing_only" -> typing_only_keys
                    [] s = "typing_and_clipboard" -> typing_and_clipboard_keys
                    [] s = "clipboard_only" -> clipboard_only_keys,
         pressed_keys |-> old[s].pressed_keys,
         gen |-> gen]]

\* KeyListener.set_activation_keys: three new KeyChord instances.  old is
\* the value of the three attributes before the call, which the code drops.
set_activation_keys(old, typing_only_keys, typing_and_clipboard_keys, clipboard_only_keys, gen) ==
    [s \in SlotNames |->
        CASE s = "typing_only" -> KeyChord(typing_only_keys, gen)
          [] s = "typing_and_clipboard" -> KeyChord(typing_and_clipboard_keys, gen)
          [] s = "clipboard_only" -> KeyChord(clipboard_only_keys, gen)]

\* a reload that gives the new chords the pressed sets of the old ones
load_activation_keys_keep_pressed(old, cfg, gen) ==
    set_activation_keys_keep_pressed(old,
                                     parse_key_combination(cfg["typing_only"]),
                                     parse_key_combination(cfg["typing_and_clipboard"]),
                                     parse_key_combination(cfg["clipboard_only"]),
                                     gen)

\* KeyListener.load_activation_keys_from_config, cfg being the three values
\* ConfigManager.get_config_value returns
load_activation_keys_from_config(old, cfg, gen) ==
    set_activation_keys(old,
                        parse_key_combination(cfg["typing_only"]),
                        parse_key_combination(cfg["typing_and_clipboard"]),
                        parse_key_combination(cfg["clipboard_only"]),
                        gen)

\* the chain of on_input_event with every elif an independent if
arbitrate_independent_ifs(was_active, now_active) ==
    (IF ~was_active["typing_only"] /\ now_active["typing_only"]
     THEN <<"on_activate_typing_only">> ELSE <<>>)
    \o (IF ~was_active["typing_and_clipboard"] /\ now_active["typing_and_clipboard"]
        THEN <<"on_activate_typing_and_clipboard">> ELSE <<>>)
    \o (IF ~was_active["clipboard_only"] /\ now_active["clipboard_only"]
        THEN <<"on_activate_clipboard_only">> ELSE <<>>)
    \o (IF (\E s \in SlotNames : was_active[s]) /\ ~(\E s \in SlotNames : now_active[s])
        THEN <<"on_deactivate">> ELSE <<>>)

\* the chain of on_input_event with the second and third branch exchanged
arbitrate_clipboard_first(was_active, now_active) ==
    IF ~was_active["typing_only"] /\ now_active["typing_only"]
    THEN <<"on_activate_typing_only">>
    ELSE IF ~was_active["clipboard_only"] /\ now_active["clipboard_only"]
    THEN <<"on_activate_clipboard_only">>
    ELSE IF ~was_active["typing_and_clipboard"] /\ now_active["typing_and_clipboard"]
    THEN <<"on_activate_typing_and_clipboard">>
    ELSE IF (\E s \in SlotNames : was_active[s]) /\ ~(\E s \in SlotNames : now_active[s])
    THEN <<"on_deactivate">>
    ELSE <<>>

\* the chain with a last branch that matches when some chord went inactive
arbitrate_any_inactive(was_active, now_active) ==
    IF ~was_active["typing_only"] /\ now_active["typing_only"]
    THEN <<"on_activate_typing_only">>
    ELSE IF ~was_active["typing_and_clipboard"] /\ now_active["typing_and_clipboard"]
    THEN <<"on_activate_typing_and_clipboard">>
    ELSE IF ~was_active["clipboard_only"] /\ now_active["clipboard_only"]
    THEN <<"on_activate_clipboard_only">>
    ELSE IF \E s \in SlotNames : was_active[s] /\ ~now_active[s]
    THEN <<"on_deactivate">>
    ELSE <<>>

\* the chain with a last branch that requires all chords to have been active
arbitrate_all_were_active(was_active, now_active) ==
    IF ~was_active["typing_only"] /\ now_active["typing_only"]
    THEN <<"on_activate_typing_only">>
    ELSE IF ~was_active["typing_and_clipboard"] /\ now_active["typing_and_clipboard"]
    THEN <<"on_activate_typing_and_clipboard">>
    ELSE IF ~was_active["clipboard_only"] /\ now_active["clipboard_only"]
    THEN <<"on_activate_clipboard_only">>
    ELSE IF (\A s \in SlotNames : was_active[s]) /\ ~(\E s \in SlotNames : now_active[s])
    THEN <<"on_deactivate">>
    ELSE <<>>

\* the if/elif chain of on_input_event: the calls of _trigger_callbacks it
\* makes, in order
arbitrate(was_active, now_active) ==
    IF ~was_active["typing_only"] /\ now_active["typing_only"]
    THEN <<"on_activate_typing_only">>
    ELSE IF ~was_active["typing_and_clipboard"] /\ now_active["typing_and_clipboard"]
    THEN <<"on_activate_typing_and_clipboard">>
    ELSE IF ~was_active["clipboard_only"] /\ now_active["clipboard_only"]
    THEN <<"on_activate_clipboard_only">>
    ELSE IF (\E s \in SlotNames : was_active[s]) /\ ~(\E s \in SlotNames : now_active[s])
    THEN <<"on_deactivate">>
    ELSE <<>>

\* the body of on_input_event run without interruption on the chords chs:
\* the was_active dictionary, the three update calls in order (an exception
\* of one skips the rest of the body), the chain
handle_event(chs, key, event_type) ==
    LET was_active == [s \in SlotNames |-> is_active(chs[s])]
        u1 == update(chs["typing_only"], key, event_type)
        u2 == update(chs["typing_and_clipboard"], key, event_type)
        u3 == update(chs["clipboard_only"], key, event_type)
        raised == IF u1.raised # "none" THEN u1.raised
                  ELSE IF u2.raised # "none" THEN u2.raised
                  ELSE u3.raised
        after == [s \in SlotNames |->
                    CASE s = "typing_only" -> u1.chord
                      [] s = "typing_and_clipboard" ->
                            IF u1.raised = "none" THEN u2.chord ELSE chs[s]
                      [] s = "clipboard_only" ->
                            IF u1.raised = "none" /\ u2.raised = "none"
                            THEN u3.chord ELSE chs[s]]
        now_active == [s \in SlotNames |-> is_active(after[s])]
    IN [chords |-> after,
        seen |-> {chs[s].gen : s \in SlotNames},
        was_active |-> was_active,
        is_active |-> now_active,
        raised |-> raised,
        triggered |-> IF raised = "none"
                      THEN arbitrate(was_active, now_active) ELSE <<>>]

(***************************************************************************)
(* The callback registry                                                   *)
(***************************************************************************)
\* self.callbacks of KeyListener.__init__
NoCallbacks == [c \in CallbackClasses |-> <<>>]

\* KeyListener.add_callback: appends when the event is a key of the registry
add_callback_to(cbs, event, callback) ==
    IF event \in DOMAIN cbs
    THEN [cbs EXCEPT ![event] = Append(@, callback)]
    ELSE cbs

\* a loop over the handlers from the last registered to the first
trigger_callbacks_reversed(cbs, event) ==
    IF event \in DOMAIN cbs
    THEN [i \in 1..Len(cbs[event]) |->
             [event |-> event, callback |-> cbs[event][Len(cbs[event]) + 1 - i]]]
    ELSE <<>>

\* KeyListener._trigger_callbacks: the calls it makes, in order
trigger_callbacks(cbs, event) ==
    IF event \in DOMAIN cbs
    THEN [i \in 1..Len(cbs[event]) |-> [event |-> event, callback |-> cbs[event][i]]]
    ELSE <<>>

\* the handler calls of the _trigger_callbacks calls of one on_input_event
RECURSIVE invoke(_, _)
invoke(cbs, triggered) ==
    IF triggered = <<>> THEN <<>>
    ELSE trigger_callbacks(cbs, Head(triggered)) \o invoke(cbs, Tail(triggered))

(***************************************************************************)
(* PynputBackend                                                           *)
(***************************************************************************)
\* the reference None
None == 0

\* PynputBackend.__init__; started counts the Listener pairs created and
\* running holds the pynput listeners that deliver events
NewBackend ==
    [keyboard_listener |-> None, mouse_listener |-> None, key_map |-> FALSE,
     started |-> 0, running |-> {}]

\* PynputBackend.start: a new keyboard.Listener and a new mouse.Listener
start_of(b) ==
    [keyboard_listener |-> b.started + 1, mouse_listener |-> b.started + 1,
     key_map |-> TRUE, started |-> b.started + 1,
     running |-> b.running \cup {<<"keyboard", b.started + 1>>,
                                 <<"mouse", b.started + 1>>}]

\* the first if of PynputBackend.stop
stop_keyboard(b) ==
    IF b.keyboard_listener # None
    THEN [b EXCEPT !.running = @ \ {<<"keyboard", b.keyboard_listener>>},
                   !.keyboard_listener = None]
    ELSE b

\* the second if of PynputBackend.stop
stop_mouse(b) ==
    IF b.mouse_listener # None
    THEN [b EXCEPT !.running = @ \ {<<"mouse", b.mouse_listener>>},
                   !.mouse_listener = None]
    ELSE b

\* a stop that calls stop() on both references without testing them
stop_unguarded(b) ==
    IF b.keyboard_listener = None \/ b.mouse_listener = None
    THEN [backend |-> IF b.keyboard_listener = None THEN b ELSE stop_keyboard(b),
          raised |-> "'NoneType' object has no attribute 'stop'"]
    ELSE [backend |-> stop_mouse(stop_keyboard(b)), raised |-> "none"]

\* PynputBackend.stop: None is false, a Listener is true
stop_of(b) == [backend |-> stop_mouse(stop_keyboard(b)), raised |-> "none"]

\* the pynput keys and buttons delivered to the callbacks
RawKeys == {"r", "R", "Key.space", "Key.menu"}
RawButtons == {"Button.left", "Button.unknown"}

\* Listener.canonical: the key without the modifier state, a character key
\* in lower case
canonical(key) == IF key = "R" THEN "r" ELSE key

\* PynputBackend._create_key_map, on the modelled keys and buttons; Key.menu
\* and Button.unknown have no entry
create_key_map ==
    [raw \in {"r", "Key.space", "Button.left"} |->
        CASE raw = "r" -> "R"
          [] raw = "Key.space" -> "SPACE"
          [] raw = "Button.left" -> "MOUSE_LEFT"]

\* PynputBackend._translate_key_event
translate_key_event(key_event, is_press) ==
    [key |-> IF key_event \in DOMAIN create_key_map
             THEN create_key_map[key_event] ELSE "SPACE",
     event_type |-> IF is_press THEN "KEY_PRESS" ELSE "KEY_RELEASE"]

(***************************************************************************)
(* Inputs                                                                  *)
(***************************************************************************)
\* the keys whose events are delivered
EventKeys == {"CTRL_LEFT", "CTRL_RIGHT", "R", "S", "A", "B", "C"}

\* the configurations ConfigManager returns: typing_activation_key,
\* typing_and_clipboard_activation_key, clipboard_activation_key
Cfg(a, b, c) ==
    [s \in SlotNames |-> CASE s = "typing_only" -> a
                           [] s = "typing_and_clipboard" -> b
                           [] s = "clipboard_only" -> c]

\* "R", "R+S", "S"
CfgRS == Cfg(<<"R">>, <<"R","+","S">>, <<"S">>)
\* "A", "B", "C"
CfgABC == Cfg(<<"A">>, <<"B">>, <<"C">>)
\* "ctrl + r", "CTRL+BOGUS", ""
CfgCtrl == Cfg(<<"c","t","r","l"," ","+"," ","r">>,
               <<"C","T","R","L","+","B","O","G","U","S">>,
               <<>>)

Configs == {CfgRS, CfgABC, CfgCtrl}

\* "R", "MOUSE_LEFT", "R+MOUSE_LEFT": chords of a keyboard key and a mouse button
CfgMouse == Cfg(<<"R">>,
                <<"M","O","U","S","E","_","L","E","F","T">>,
                <<"R","+","M","O","U","S","E","_","L","E","F","T">>)

\* the configurations of SpecThreads
ThreadConfigs == {CfgMouse}

NoEvent ==
    [raw |-> "none", key |-> "none", event_type |-> "none",
     was_active |-> [s \in SlotNames |-> FALSE],
     is_active |-> [s \in SlotNames |-> FALSE],
     triggered |-> <<>>, invoked |-> <<>>, seen |-> {}]

(***************************************************************************)
(* Frames of the calls in progress                                         *)
(***************************************************************************)
\* the threads pynput delivers on: keyboard.Listener and mouse.Listener
Threads == {"keyboard", "mouse"}

\* no call of on_input_event in progress on the thread
IdleFrame ==
    [pc |-> "idle", raw |-> "none", key |-> "none", event_type |-> "none",
     was_active |-> [s \in SlotNames |-> FALSE],
     is_active |-> [s \in SlotNames |-> FALSE],
     seen |-> {}]

\* no call of update_activation_keys in progress
IdleReload == [pc |-> "idle", keys |-> [s \in SlotNames |-> {}]]

NoCallInProgress == rl = IdleReload /\ \A t \in Threads : h[t] = IdleFrame

\* no callback class has fired; no history is kept
NoHistory ==
    [recording |-> FALSE, fired |-> [class |-> "none", seen |-> {}],
     armed |-> [s \in SlotNames |-> TRUE]]

\* no callback class has fired; the history is kept
Recording == [NoHistory EXCEPT !.recording = TRUE]

\* the activation class of a chord
ActivationClass(s) ==
    CASE s = "typing_only" -> "on_activate_typing_only"
      [] s = "typing_and_clipboard" -> "on_activate_typing_and_clipboard"
      [] s = "clipboard_only" -> "on_activate_clipboard_only"

\* the history after the chords have become chs
Changed(hi, chs) ==
    IF ~hi.recording THEN hi
    ELSE [hi EXCEPT !.armed = [s \in SlotNames |-> hi.armed[s] \/ ~is_active(chs[s])]]

\* the history after an event, handled with the instances seen while the
\* chords are chs, has triggered the classes of triggered
Fired(hi, chs, triggered, seen) ==
    IF triggered = <<>> \/ ~hi.recording THEN hi
    ELSE [recording |-> TRUE,
          fired |-> [class |-> triggered[Len(triggered)], seen |-> seen],
          armed |-> [s \in SlotNames |->
                       IF \E i \in 1..Len(triggered) : triggered[i] = ActivationClass(s)
                       THEN ~is_active(chs[s]) ELSE hi.armed[s]]]

\* no call of parse_key_combination recorded
NoParse ==
    [tokens |-> <<>>, combination_string |-> <<>>, returned |-> FALSE,
     keys |-> {}, printed |-> <<>>]

(***************************************************************************)
(* Spec: calls that do not overlap                                         *)
(***************************************************************************)
InitWith(cfgs) ==
    /\ config \in cfgs
    /\ chords = load_activation_keys_from_config(
                    [s \in SlotNames |-> KeyChord({}, 0)], config, 0)
    /\ reloads = 0
    /\ last = NoEvent
    /\ error = "none"
    /\ h = [t \in Threads |-> IdleFrame]
    /\ rl = IdleReload
    /\ delivered = 0
    /\ stopper = "idle"

Init ==
    /\ InitWith(Configs)
    /\ callbacks = NoCallbacks
    /\ backend = NewBackend
    /\ hist = NoHistory
    /\ parse = NoParse

\* KeyListener.on_input_event((key, event_type)), start to return.  The guard
\* of its first statement passes: __init__ sets both attributes, and a
\* KeyChord, which defines neither __bool__ nor __len__, is true.
input_event(raw, key, event_type) ==
    /\ NoCallInProgress
    /\ error = "none"
    /\ \E r \in {handle_event(chords, key, event_type)} :
          /\ chords' = r.chords
          /\ last' = [raw |-> raw, key |-> key, event_type |-> event_type,
                      was_active |-> r.was_active, is_active |-> r.is_active,
                      triggered |-> r.triggered,
                      invoked |-> invoke(callbacks, r.triggered),
                      seen |-> r.seen]
          /\ error' = r.raised
          /\ hist' = Fired(Changed(hist, r.chords), r.chords, r.triggered, r.seen)
    /\ UNCHANGED <<config, reloads, h, rl, delivered, parse, callbacks, backend, stopper>>

\* on_input_event called with an event that no pynput callback translated
on_input_event(key, event_type) == input_event("none", key, event_type)

\* KeyListener.update_activation_keys(), ConfigManager returning cfg
update_activation_keys(cfg) ==
    /\ NoCallInProgress
    /\ error = "none"
    /\ reloads < MaxReloads
    /\ config' = cfg
    /\ chords' = load_activation_keys_from_config(chords, cfg, reloads + 1)
    /\ reloads' = reloads + 1
    /\ hist' = Changed(hist, chords')
    /\ UNCHANGED <<last, error, h, rl, delivered, parse, callbacks, backend, stopper>>

InputEventStep == \E key \in EventKeys, event_type \in InputEvent :
                      on_input_event(key, event_type)

ReloadStep == \E cfg \in Configs : update_activation_keys(cfg)

Next == InputEventStep \/ ReloadStep

Spec == Init /\ [][Next]_vars

\* Spec with the history kept
InitHistory ==
    /\ InitWith(Configs)
    /\ callbacks = NoCallbacks
    /\ backend = NewBackend
    /\ hist = Recording
    /\ parse = NoParse

\* the presses and releases of a key of each configuration
HistoryKeys == {"CTRL_LEFT", "R", "S", "A", "B"}

HistoryEventStep == \E key \in HistoryKeys, event_type \in {"KEY_PRESS", "KEY_RELEASE"} :
                        on_input_event(key, event_type)

NextHistory == HistoryEventStep \/ ReloadStep

SpecHistory == InitHistory /\ [][NextHistory]_vars


\* Spec started with a chord slot disabled: "", "R", "S"; "R", "BOGUS", "S";
\* "R", "S", ""; "", "", ""
CfgNoTyping == Cfg(<<>>, <<"R">>, <<"S">>)
CfgNoBoth == Cfg(<<"R">>, <<"B","O","G","U","S">>, <<"S">>)
CfgNoClipboard == Cfg(<<"R">>, <<"S">>, <<>>)
CfgNone == Cfg(<<>>, <<>>, <<>>)

EmptyConfigs == {CfgNoTyping, CfgNoBoth, CfgNoClipboard, CfgNone}

InitEmpty ==
    /\ InitWith(EmptyConfigs)
    /\ callbacks = NoCallbacks
    /\ backend = NewBackend
    /\ hist = NoHistory
    /\ parse = NoParse

SpecEmpty == InitEmpty /\ [][Next]_vars


(***************************************************************************)
(* SpecThreads: the statements of on_input_event and set_activation_keys   *)
(* as steps of their threads.  Each step reads self.<slot>_chord anew, as  *)
(* the attribute access of the statement does.                             *)
(***************************************************************************)
\* keys the keyboard listener and the mouse listener deliver
KeyboardKeys == {"R"}
MouseKeys == {"MOUSE_LEFT"}
DeliveredKeys(t) == IF t = "keyboard" THEN KeyboardKeys ELSE MouseKeys

\* _on_keyboard_press, _on_keyboard_release, _on_mouse_click: the translated
\* event enters on_input_event and passes its guard
T_deliver(t, key, is_press) ==
    /\ h[t].pc = "idle"
    /\ error = "none"
    /\ delivered < MaxDelivered
    /\ delivered' = delivered + 1
    /\ h' = [h EXCEPT ![t] =
                [IdleFrame EXCEPT !.pc = "was1", !.key = key,
                    !.event_type = IF is_press THEN "KEY_PRESS" ELSE "KEY_RELEASE"]]
    /\ UNCHANGED <<config, chords, reloads, last, error, rl, parse, callbacks, backend, stopper, hist>>

\* one entry of the was_active dictionary: self.<slot>_chord.is_active()
T_was(t, i) ==
    /\ h[t].pc = <<"was1", "was2", "was3">>[i]
    /\ h' = [h EXCEPT ![t].was_active[Slots[i]] = is_active(chords[Slots[i]]),
                      ![t].seen = @ \cup {chords[Slots[i]].gen},
                      ![t].pc = <<"was2", "was3", "upd1">>[i]]
    /\ UNCHANGED <<config, chords, reloads, last, error, rl, delivered, parse, callbacks, backend, stopper, hist>>

\* one entry of the is_active dictionary: self.<slot>_chord.update(key, event_type)
T_update(t, i) ==
    /\ h[t].pc = <<"upd1", "upd2", "upd3">>[i]
    /\ \E u \in {update(chords[Slots[i]], h[t].key, h[t].event_type)} :
          IF u.raised = "none"
          THEN /\ chords' = [chords EXCEPT ![Slots[i]] = u.chord]
               /\ h' = [h EXCEPT ![t].is_active[Slots[i]] = is_active(u.chord),
                                 ![t].seen = @ \cup {chords[Slots[i]].gen},
                                 ![t].pc = <<"upd2", "upd3", "chain">>[i]]
               /\ error' = error
          ELSE /\ chords' = chords
               /\ h' = [h EXCEPT ![t] = IdleFrame]
               /\ error' = u.raised
    /\ hist' = Changed(hist, chords')
    /\ UNCHANGED <<config, reloads, last, rl, delivered, parse, callbacks, backend, stopper>>

\* the if/elif chain and the return
T_chain(t) ==
    /\ h[t].pc = "chain"
    /\ last' = [raw |-> h[t].raw, key |-> h[t].key, event_type |-> h[t].event_type,
                was_active |-> h[t].was_active, is_active |-> h[t].is_active,
                triggered |-> arbitrate(h[t].was_active, h[t].is_active),
                invoked |-> invoke(callbacks,
                                   arbitrate(h[t].was_active, h[t].is_active)),
                seen |-> h[t].seen]
    /\ h' = [h EXCEPT ![t] = IdleFrame]
    /\ hist' = Fired(hist, chords, arbitrate(h[t].was_active, h[t].is_active),
                     h[t].seen)
    /\ UNCHANGED <<config, chords, reloads, error, rl, delivered, parse, callbacks, backend, stopper>>

\* update_activation_keys up to the call of set_activation_keys: the three
\* values are read and parsed
R_load(cfg) ==
    /\ rl.pc = "idle"
    /\ error = "none"
    /\ reloads < MaxReloads
    /\ config' = cfg
    /\ reloads' = reloads + 1
    /\ rl' = [pc |-> "set1",
              keys |-> [s \in SlotNames |-> parse_key_combination(cfg[s])]]
    /\ UNCHANGED <<chords, last, error, h, delivered, parse, callbacks, backend, stopper, hist>>

\* one assignment of set_activation_keys: self.<slot>_chord = KeyChord(...)
R_set(i) ==
    /\ rl.pc = <<"set1", "set2", "set3">>[i]
    /\ chords' = [chords EXCEPT ![Slots[i]] =
                     set_activation_keys(chords, rl.keys["typing_only"],
                                         rl.keys["typing_and_clipboard"],
                                         rl.keys["clipboard_only"],
                                         reloads)[Slots[i]]]
    /\ rl' = IF i = 3 THEN IdleReload ELSE [rl EXCEPT !.pc = <<"set2", "set3">>[i]]
    /\ hist' = Changed(hist, chords')
    /\ UNCHANGED <<config, reloads, last, error, h, delivered, parse, callbacks, backend, stopper>>

DeliverStep == \E t \in Threads, is_press \in BOOLEAN :
                   \E key \in DeliveredKeys(t) : T_deliver(t, key, is_press)

WasStep == \E t \in Threads, i \in 1..3 : T_was(t, i)

UpdateStep == \E t \in Threads, i \in 1..3 : T_update(t, i)

ChainStep == \E t \in Threads : T_chain(t)

LoadStep == \E cfg \in ThreadConfigs : R_load(cfg)

SetStep == \E i \in 1..3 : R_set(i)

NextThreads ==
    DeliverStep \/ WasStep \/ UpdateStep \/ ChainStep \/ LoadStep \/ SetStep

\* the listener after construction and start()
InitThreads ==
    /\ InitWith(ThreadConfigs)
    /\ callbacks = NoCallbacks
    /\ backend = start_of(NewBackend)
    /\ hist = Recording
    /\ parse = NoParse

SpecThreads == InitThreads /\ [][NextThreads]_vars


(***************************************************************************)
(* SpecStop: the callbacks of the two running listeners and one call of    *)
(* stop() on another thread, interleaved between their statements.         *)
(* Listener.stop() of pynput signals the listener to stop and returns: it  *)
(* does not wait for a callback the listener thread is in.  A stopped      *)
(* listener starts no further callback.                                    *)
(***************************************************************************)
\* the keys and buttons the two listeners pass to their callbacks
DeliveredRaw(t) == IF t = "keyboard" THEN {"r"} ELSE {"Button.left"}

\* the consumer has registered one handler for every callback class
OneHandlerEach == [c \in CallbackClasses |-> <<"f">>]

InitStop ==
    /\ InitWith(ThreadConfigs)
    /\ callbacks = OneHandlerEach
    /\ backend = start_of(NewBackend)
    /\ hist = NoHistory
    /\ parse = NoParse

\* the listener thread t, running, calls _on_keyboard_press,
\* _on_keyboard_release or _on_mouse_click
B_callback(t, raw, is_press) ==
    /\ h[t].pc = "idle"
    /\ error = "none"
    /\ \E n \in 1..backend.started : <<t, n>> \in backend.running
    /\ delivered < MaxDelivered
    /\ delivered' = delivered + 1
    /\ h' = [h EXCEPT ![t] =
                [IdleFrame EXCEPT !.pc = "translate", !.raw = raw,
                    !.event_type = IF is_press THEN "KEY_PRESS" ELSE "KEY_RELEASE"]]
    /\ UNCHANGED <<config, chords, reloads, last, error, rl, parse, callbacks, backend, stopper, hist>>

\* the callback up to the guard of on_input_event: the keyboard callbacks
\* read self.keyboard_listener for canonical(), all translate the key
B_translate(t) ==
    /\ h[t].pc = "translate"
    /\ IF t = "keyboard" /\ backend.keyboard_listener = None
       THEN /\ error' = "'NoneType' object has no attribute 'canonical'"
            /\ h' = [h EXCEPT ![t] = IdleFrame]
       ELSE /\ error' = error
            /\ h' = [h EXCEPT ![t].pc = "was1",
                              ![t].key =
                                  translate_key_event(
                                      IF t = "keyboard" THEN canonical(h[t].raw)
                                      ELSE h[t].raw,
                                      h[t].event_type = "KEY_PRESS").key]
    /\ UNCHANGED <<config, chords, reloads, last, rl, delivered, parse, callbacks, backend, stopper, hist>>

\* one statement of PynputBackend.stop, called through KeyListener.stop():
\* the two tests, the two Listener.stop() calls, the two assignments of None
S_stop ==
    /\ error = "none"
    /\ stopper # "returned"
    /\ \/ /\ stopper = "idle"
          /\ stopper' = IF backend.keyboard_listener # None
                         THEN "keyboard_stop" ELSE "mouse_test"
          /\ backend' = backend
       \/ /\ stopper = "keyboard_stop"
          /\ stopper' = "keyboard_clear"
          /\ backend' = [backend EXCEPT
                            !.running = @ \ {<<"keyboard", backend.keyboard_listener>>}]
       \/ /\ stopper = "keyboard_clear"
          /\ stopper' = "mouse_test"
          /\ backend' = [backend EXCEPT !.keyboard_listener = None]
       \/ /\ stopper = "mouse_test"
          /\ stopper' = IF backend.mouse_listener # None
                         THEN "mouse_stop" ELSE "returned"
          /\ backend' = backend
       \/ /\ stopper = "mouse_stop"
          /\ stopper' = "mouse_clear"
          /\ backend' = [backend EXCEPT
                            !.running = @ \ {<<"mouse", backend.mouse_listener>>}]
       \/ /\ stopper = "mouse_clear"
          /\ stopper' = "returned"
          /\ backend' = [backend EXCEPT !.mouse_listener = None]
    /\ UNCHANGED <<config, chords, reloads, last, error, h, rl, delivered, parse, callbacks, hist>>

CallbackStep == \E t \in Threads, is_press \in BOOLEAN :
                    \E raw \in DeliveredRaw(t) : B_callback(t, raw, is_press)

TranslateStep == \E t \in Threads : B_translate(t)

NextStop ==
    CallbackStep \/ TranslateStep \/ WasStep \/ UpdateStep \/ ChainStep \/ S_stop

SpecStop == InitStop /\ [][NextStop]_vars


(***************************************************************************)
(* SpecParse: parse_key_combination applied to combination strings written *)
(* token by token                                                          *)
(***************************************************************************)
\* a combination string has at most MaxTokens tokens
MaxTokens == 3

\* the tokens a combination string is written from, as typed
RawTokens == {"CTRL", "SHIFT", "ALT", "META", "Q", "BOGUS", " ctrl ", "q ", ""}

\* the characters of a token
TokenChars(tok) ==
    CASE tok = "CTRL"   -> <<"C","T","R","L">>
      [] tok = "SHIFT"  -> <<"S","H","I","F","T">>
      [] tok = "ALT"    -> <<"A","L","T">>
      [] tok = "META"   -> <<"M","E","T","A">>
      [] tok = "Q"      -> <<"Q">>
      [] tok = "BOGUS"  -> <<"B","O","G","U","S">>
      [] tok = " ctrl " -> <<" ","c","t","r","l"," ">>
      [] tok = "q "     -> <<"q"," ">>
      [] tok = ""       -> <<>>

\* the combination string starts with one token
InitParse ==
    /\ InitWith({CfgRS})
    /\ callbacks = NoCallbacks
    /\ backend = NewBackend
    /\ hist = NoHistory
    /\ \E tok \in RawTokens :
          parse = [NoParse EXCEPT !.tokens = <<tok>>,
                                  !.combination_string = TokenChars(tok)]

\* '+' and one more token are written
WriteToken(tok) ==
    /\ ~parse.returned
    /\ Len(parse.tokens) < MaxTokens
    /\ parse' = [parse EXCEPT !.tokens = Append(@, tok),
                             !.combination_string = @ \o <<"+">> \o TokenChars(tok)]
    /\ UNCHANGED <<config, chords, reloads, last, error, h, rl, delivered, callbacks, backend, stopper, hist>>

\* KeyListener.parse_key_combination(combination_string), call to return
ParseCall ==
    /\ ~parse.returned
    /\ parse' = [parse EXCEPT
                    !.returned = TRUE,
                    !.keys = parse_key_combination(parse.combination_string),
                    !.printed = print_unknown(split(upper(parse.combination_string)))]
    /\ UNCHANGED <<config, chords, reloads, last, error, h, rl, delivered, callbacks, backend, stopper, hist>>

WriteStep == \E tok \in RawTokens : WriteToken(tok)

NextParse == WriteStep \/ ParseCall

SpecParse == InitParse /\ [][NextParse]_vars


(***************************************************************************)
(* SpecBackend: the listener as its owner uses it, calls that do not       *)
(* overlap: add_callback, start, stop, and the events the running pynput   *)
(* listeners pass to the callbacks of the backend                          *)
(***************************************************************************)
\* add_callback is called at most MaxCallbacks times
MaxCallbacks == 2

\* start is called at most MaxStarts times
MaxStarts == 2

\* the handlers the consumer registers
Handlers == {"f", "g"}

\* the event names the consumer registers them for: two callback classes and
\* a name that is no key of the registry
EventNames == {"on_activate_typing_only", "on_deactivate", "on_other"}

\* "SPACE", "R", "MOUSE_LEFT"
CfgSpace == Cfg(<<"S","P","A","C","E">>, <<"R">>,
                <<"M","O","U","S","E","_","L","E","F","T">>)

BackendConfigs == {CfgSpace}

InitBackend ==
    /\ InitWith(BackendConfigs)
    /\ callbacks = NoCallbacks
    /\ backend = NewBackend
    /\ hist = NoHistory
    /\ parse = NoParse

\* the number of handlers registered
RECURSIVE Registered(_, _)
Registered(cbs, classes) ==
    IF classes = {} THEN 0
    ELSE LET c == CHOOSE c \in classes : TRUE
         IN Len(cbs[c]) + Registered(cbs, classes \ {c})

\* KeyListener.add_callback(event, callback)
add_callback(event, callback) ==
    /\ NoCallInProgress
    /\ error = "none"
    /\ Registered(callbacks, CallbackClasses) < MaxCallbacks
    /\ callbacks' = add_callback_to(callbacks, event, callback)
    /\ UNCHANGED <<config, chords, reloads, last, error, h, rl, delivered, parse, backend, stopper, hist>>

\* KeyListener.start()
start ==
    /\ NoCallInProgress
    /\ error = "none"
    /\ backend.started < MaxStarts
    /\ backend' = start_of(backend)
    /\ UNCHANGED <<config, chords, reloads, last, error, h, rl, delivered, parse, callbacks, stopper, hist>>

\* KeyListener.stop()
stop ==
    /\ NoCallInProgress
    /\ error = "none"
    /\ \E r \in {stop_of(backend)} : backend' = r.backend /\ error' = r.raised
    /\ UNCHANGED <<config, chords, reloads, last, h, rl, delivered, parse, callbacks, stopper, hist>>

\* PynputBackend._on_keyboard_press(key) and _on_keyboard_release(key), called
\* by a running keyboard.Listener; self.keyboard_listener is None when stop()
\* has cleared it and the calling listener is one an earlier start() left
\* running
on_keyboard(key, is_press) ==
    /\ \E n \in 1..backend.started : <<"keyboard", n>> \in backend.running
    /\ IF backend.keyboard_listener = None
       THEN /\ NoCallInProgress
            /\ error = "none"
            /\ error' = "'NoneType' object has no attribute 'canonical'"
            /\ UNCHANGED <<config, chords, reloads, last, h, rl, delivered, parse, callbacks, backend, stopper, hist>>
       ELSE \E e \in {translate_key_event(canonical(key), is_press)} :
                input_event(key, e.key, e.event_type)

\* PynputBackend._on_mouse_click(x, y, button, pressed), called by a running
\* mouse.Listener
on_mouse_click(button, pressed) ==
    /\ \E n \in 1..backend.started : <<"mouse", n>> \in backend.running
    /\ \E e \in {translate_key_event(button, pressed)} :
          input_event(button, e.key, e.event_type)

AddCallbackStep == \E event \in EventNames, callback \in Handlers :
                       add_callback(event, callback)

KeyboardStep == \E key \in RawKeys, is_press \in BOOLEAN : on_keyboard(key, is_press)

MouseStep == \E button \in RawButtons, pressed \in BOOLEAN :
                 on_mouse_click(button, pressed)

NextBackend == AddCallbackStep \/ start \/ stop \/ KeyboardStep \/ MouseStep

SpecBackend == InitBackend /\ [][NextBackend]_vars


(***************************************************************************)
(* Vocabulary of the properties                                            *)
(***************************************************************************)
\* a chord definition is satisfied by a pressed set: every single identity
\* is pressed and every alternative group has a pressed member
Satisfied(keys, pressed) ==
    \A e \in keys : IF e.frozen THEN e.ks \cap pressed # {} ELSE e.ks \subseteq pressed

\* the activity of the three chords
Active(chs) == [s \in SlotNames |-> is_active(chs[s])]

\* the priority rules as an ordered list of guards and callback classes
RuleClass ==
    <<"on_activate_typing_only", "on_activate_typing_and_clipboard",
      "on_activate_clipboard_only", "on_deactivate">>

RuleGuard(i, was, now) ==
    IF i \in 1..3
    THEN ~was[Slots[i]] /\ now[Slots[i]]
    ELSE (\E s \in SlotNames : was[s]) /\ (\A s \in SlotNames : ~now[s])

\* the callback classes the first matching rule fires: one or none
FirstMatch(was, now) ==
    LET matching == {i \in 1..4 : RuleGuard(i, was, now)}
    IN IF matching = {} THEN <<>>
       ELSE <<RuleClass[CHOOSE i \in matching : \A j \in matching : i <= j]>>

\* on each of the 64 combinations of activity before and after, the chain of
\* on_input_event triggers what the first matching rule says
ChainIsFirstMatch ==
    \A was \in [SlotNames -> BOOLEAN], now \in [SlotNames -> BOOLEAN] :
        arbitrate(was, now) = FirstMatch(was, now)

\* every chord holds the pressed set P
PressedIs(chs, P) == \A s \in SlotNames : chs[s].pressed_keys = P

\* the definitions parse_key_combination gives for each configuration
Parsed ==
    [cfg \in Configs \cup ThreadConfigs |->
        [s \in SlotNames |-> parse_key_combination(cfg[s])]]

\* the three chord definitions are those of configuration cfg
DefinedBy(chs, cfg) == \A s \in SlotNames : chs[s].keys = Parsed[cfg][s]

\* a step of Spec that is one call of on_input_event; last' holds its event
EventStepTaken == reloads' = reloads /\ config' = config

\* a step of Spec that is one call of update_activation_keys
ReloadStepTaken == reloads' = reloads + 1

\* last is the event (key, event_type)
LastIs(key, event_type) == last.key = key /\ last.event_type = event_type

(***************************************************************************)
(* C1: every call of on_input_event triggers exactly the callback class of *)
(* the first rule, in the order typing_only, typing_and_clipboard,         *)
(* clipboard_only, deactivate, that matches the activity of the three      *)
(* chords before and after the call, and nothing when no rule matches; it  *)
(* never triggers more than one class.                                     *)
(***************************************************************************)
C1_FirstMatchingRule ==
    [][EventStepTaken =>
          /\ last'.triggered = FirstMatch(Active(chords), Active(chords'))
          /\ Len(last'.triggered) <= 1
          /\ ChainIsFirstMatch]_vars

\* two rules match on one event and only the first fires
C1_Witness ==
    /\ ~last.was_active["typing_and_clipboard"] /\ last.is_active["typing_and_clipboard"]
    /\ ~last.was_active["clipboard_only"] /\ last.is_active["clipboard_only"]
    /\ last.triggered = <<"on_activate_typing_and_clipboard">>

(***************************************************************************)
(* C2: the calls of on_input_event made by the keyboard listener thread    *)
(* and by the mouse listener thread are serialized: while one thread is    *)
(* between the snapshot and the end of the chain, the other has no call in *)
(* progress.                                                               *)
(***************************************************************************)
C2_Serialized ==
    ~(h["keyboard"].pc # "idle" /\ h["mouse"].pc # "idle")

(***************************************************************************)
(* C3: a call of on_input_event that overlaps a reload uses, in its six    *)
(* accesses to the chords, KeyChord instances of one generation only: all  *)
(* old or all new.                                                         *)
(***************************************************************************)
C3_NoMixture ==
    \A t \in Threads : Cardinality(h[t].seen) <= 1

(***************************************************************************)
(* C4: with typing_only = {R} and typing_and_clipboard = {R, S} and no key *)
(* pressed, the event press R triggers on_activate_typing_only and leaves  *)
(* R pressed; from there the event press S triggers                        *)
(* on_activate_typing_and_clipboard while typing_only stays active.        *)
(***************************************************************************)
C4_PressRThenS ==
    [][(/\ EventStepTaken
        /\ chords["typing_only"].keys = {Single("R")}
        /\ chords["typing_and_clipboard"].keys = {Single("R"), Single("S")})
       =>
       /\ (PressedIs(chords, {}) /\ LastIs("R", "KEY_PRESS")'
             => /\ last'.triggered = <<"on_activate_typing_only">>
                /\ PressedIs(chords', {"R"}))
       /\ (PressedIs(chords, {"R"}) /\ LastIs("S", "KEY_PRESS")'
             => /\ last'.triggered = <<"on_activate_typing_and_clipboard">>
                /\ is_active(chords["typing_only"])
                /\ is_active(chords'["typing_only"]))]_vars

\* press S has been handled with R held and typing_only active
C4_Witness ==
    /\ chords["typing_only"].keys = {Single("R")}
    /\ chords["typing_and_clipboard"].keys = {Single("R"), Single("S")}
    /\ PressedIs(chords, {"R", "S"})
    /\ LastIs("S", "KEY_PRESS")
    /\ last.seen = {chords["typing_only"].gen}
    /\ last.was_active["typing_only"]
    /\ ~last.was_active["typing_and_clipboard"]
    /\ last.triggered = <<"on_activate_typing_and_clipboard">>

(***************************************************************************)
(* C5: when several chords go from inactive to active on one event, only   *)
(* the activation class of the first of them in the order typing_only,     *)
(* typing_and_clipboard, clipboard_only is triggered; and an activation    *)
(* class is triggered only by an event on which its own chord goes from    *)
(* inactive to active, so an absorbed activation fires on no later event   *)
(* unless the chord has become inactive and active again.                  *)
(***************************************************************************)
C5_AbsorbedActivation ==
    [][EventStepTaken =>
          LET was == Active(chords)
              now == Active(chords')
              rising == {i \in 1..3 : ~was[Slots[i]] /\ now[Slots[i]]}
          IN /\ Cardinality(rising) >= 2 =>
                  last'.triggered =
                      <<RuleClass[CHOOSE i \in rising : \A j \in rising : i <= j]>>
             /\ \A i \in 1..3 :
                  (\E n \in 1..Len(last'.triggered) : last'.triggered[n] = RuleClass[i])
                      => i \in rising]_vars

\* typing_only and typing_and_clipboard went active on one event
C5_Witness ==
    /\ ~last.was_active["typing_only"] /\ last.is_active["typing_only"]
    /\ ~last.was_active["typing_and_clipboard"] /\ last.is_active["typing_and_clipboard"]
    /\ last.triggered = <<"on_activate_typing_only">>

(***************************************************************************)
(* C6: with typing_only = {A}, typing_and_clipboard = {B}, clipboard_only  *)
(* = {C} and no key pressed, the event press A triggers                    *)
(* on_activate_typing_only once and nothing else and leaves A pressed;     *)
(* from there the event release A triggers on_deactivate once and nothing  *)
(* else.                                                                   *)
(***************************************************************************)
C6_PressReleaseA ==
    [][(/\ EventStepTaken
        /\ chords["typing_only"].keys = {Single("A")}
        /\ chords["typing_and_clipboard"].keys = {Single("B")}
        /\ chords["clipboard_only"].keys = {Single("C")})
       =>
       /\ (PressedIs(chords, {}) /\ LastIs("A", "KEY_PRESS")'
             => /\ last'.triggered = <<"on_activate_typing_only">>
                /\ PressedIs(chords', {"A"}))
       /\ (PressedIs(chords, {"A"}) /\ LastIs("A", "KEY_RELEASE")'
             => /\ last'.triggered = <<"on_deactivate">>
                /\ PressedIs(chords', {}))]_vars

\* release A has been handled with only A held
C6_Witness ==
    /\ chords["typing_only"].keys = {Single("A")}
    /\ chords["typing_and_clipboard"].keys = {Single("B")}
    /\ chords["clipboard_only"].keys = {Single("C")}
    /\ PressedIs(chords, {})
    /\ LastIs("A", "KEY_RELEASE")
    /\ last.seen = {chords["typing_only"].gen}
    /\ last.was_active["typing_only"]
    /\ last.triggered = <<"on_deactivate">>

(***************************************************************************)
(* C7: for every chord and pressed set, is_active is true exactly when     *)
(* every single identity of the definition is pressed and every            *)
(* alternative group has at least one pressed member; a chord of the CTRL  *)
(* group and R is active with CTRL_LEFT only, CTRL_RIGHT only and both     *)
(* pressed beside R, and inactive with neither.                            *)
(***************************************************************************)
C7_ActiveIffSatisfied ==
    \A s \in SlotNames :
        /\ is_active(chords[s]) = Satisfied(chords[s].keys, chords[s].pressed_keys)
        /\ (chords[s].keys = {Group({"CTRL_LEFT", "CTRL_RIGHT"}), Single("R")}
              => is_active(chords[s]) =
                    /\ "R" \in chords[s].pressed_keys
                    /\ chords[s].pressed_keys \cap {"CTRL_LEFT", "CTRL_RIGHT"} # {})

\* the chord CTRL+R is active with only the right CTRL key held beside R
C7_Witness ==
    /\ chords["typing_only"].keys = {Group({"CTRL_LEFT", "CTRL_RIGHT"}), Single("R")}
    /\ chords["typing_only"].pressed_keys \cap {"CTRL_LEFT", "CTRL_RIGHT", "R"}
           = {"CTRL_RIGHT", "R"}
    /\ is_active(chords["typing_only"])

(***************************************************************************)
(* C8: a chord whose definition is empty is active in every reachable      *)
(* state, whatever events it has received, and no call has raised.         *)
(***************************************************************************)
C8_EmptyChordAlwaysActive ==
    /\ \A s \in SlotNames : chords[s].keys = {} => is_active(chords[s])
    /\ error = "none"

\* a chord with an empty definition has received presses and a release
C8_Witness ==
    /\ chords["clipboard_only"].keys = {}
    /\ chords["clipboard_only"].pressed_keys # {}
    /\ last.event_type = "KEY_RELEASE"
    /\ last.seen = {chords["clipboard_only"].gen}
    /\ last.was_active["clipboard_only"] /\ last.is_active["clipboard_only"]

(***************************************************************************)
(* C9: a release of a key that is not in a chord's pressed set raises      *)
(* nothing and leaves that pressed set, and so the chord's activity,       *)
(* unchanged.                                                              *)
(***************************************************************************)
C9_ReleaseOfAbsentKey ==
    [][(EventStepTaken /\ last'.event_type = "KEY_RELEASE") =>
          /\ error' = "none"
          /\ \A s \in SlotNames :
                last'.key \notin chords[s].pressed_keys
                    => /\ chords'[s].pressed_keys = chords[s].pressed_keys
                       /\ is_active(chords'[s]) = is_active(chords[s])]_vars

\* S was released while the chord {S} was inactive: S was not pressed
C9_Witness ==
    /\ reloads = 0
    /\ chords["clipboard_only"].keys = {Single("S")}
    /\ LastIs("S", "KEY_RELEASE")
    /\ ~last.was_active["clipboard_only"]
    /\ chords["typing_only"].pressed_keys = {"R"}
    /\ error = "none"

(***************************************************************************)
(* C10: a call of update_activation_keys leaves three KeyChord instances   *)
(* of a new generation, built from the definitions just read, with empty   *)
(* pressed sets; and every later call of on_input_event uses only the      *)
(* instances of the latest reload and evaluates the definitions just read. *)
(***************************************************************************)
C10_ReloadReplacesChords ==
    [][/\ ReloadStepTaken =>
            \A s \in SlotNames :
                /\ chords'[s].keys = Parsed[config'][s]
                /\ chords'[s].pressed_keys = {}
                /\ \A o \in SlotNames : chords'[s].gen # chords[o].gen
       /\ EventStepTaken =>
            /\ last'.seen = {reloads}
            /\ \A s \in SlotNames :
                  /\ last'.was_active[s] =
                        Satisfied(Parsed[config][s], chords[s].pressed_keys)
                  /\ last'.is_active[s] =
                        Satisfied(Parsed[config][s], chords'[s].pressed_keys)]_vars

\* after one reload a press of B was handled: it used the instances of that
\* reload only and triggered the class of the reloaded definition {B}
C10_Witness ==
    /\ reloads = 1
    /\ DefinedBy(chords, CfgABC)
    /\ PressedIs(chords, {"B"})
    /\ last.seen = {1}
    /\ LastIs("B", "KEY_PRESS")
    /\ last.triggered = <<"on_activate_typing_and_clipboard">>


(***************************************************************************)
(* C11: parse_key_combination returns exactly the set obtained by          *)
(* splitting the string on '+', trimming and uppercasing each token, and   *)
(* contributing the two-member left/right group for CTRL, SHIFT, ALT and   *)
(* META, the single identity for a token that is a KeyCode name, and       *)
(* nothing for any other token, which is printed and skipped wherever it   *)
(* occurs without ending the loop.  "CTRL+SHIFT+Q" gives the CTRL group,   *)
(* the SHIFT group and Q; "CTRL+BOGUS" gives the CTRL group alone; a       *)
(* string of unrecognized tokens gives the empty set.                      *)
(***************************************************************************)
\* a token trimmed and uppercased
Canonical(tok) ==
    CASE tok \in {"CTRL", " ctrl "} -> "CTRL"
      [] tok \in {"Q", "q "} -> "Q"
      [] OTHER -> tok

\* what a trimmed, uppercased token contributes
Contribution(name) ==
    CASE name = "CTRL"  -> {Group({"CTRL_LEFT", "CTRL_RIGHT"})}
      [] name = "SHIFT" -> {Group({"SHIFT_LEFT", "SHIFT_RIGHT"})}
      [] name = "ALT"   -> {Group({"ALT_LEFT", "ALT_RIGHT"})}
      [] name = "META"  -> {Group({"META_LEFT", "META_RIGHT"})}
      [] name \in KeyCode -> {Single(name)}
      [] OTHER -> {}

\* the tokens that contribute nothing, trimmed and uppercased, in order
RECURSIVE Unrecognized(_)
Unrecognized(toks) ==
    IF toks = <<>> THEN <<>>
    ELSE IF Contribution(Canonical(Head(toks))) = {}
         THEN <<TokenChars(Canonical(Head(toks)))>> \o Unrecognized(Tail(toks))
         ELSE Unrecognized(Tail(toks))

C11_ParseIsTokenwise ==
    parse.returned =>
        /\ parse.keys = UNION {Contribution(Canonical(parse.tokens[i])) :
                                   i \in 1..Len(parse.tokens)}
        /\ parse.printed = Unrecognized(parse.tokens)
        /\ parse.combination_string
               = <<"C","T","R","L","+","S","H","I","F","T","+","Q">>
             => parse.keys = {Group({"CTRL_LEFT", "CTRL_RIGHT"}),
                              Group({"SHIFT_LEFT", "SHIFT_RIGHT"}),
                              Single("Q")}
        /\ parse.combination_string = <<"C","T","R","L","+","B","O","G","U","S">>
             => parse.keys = {Group({"CTRL_LEFT", "CTRL_RIGHT"})}
        /\ (\A i \in 1..Len(parse.tokens) : parse.tokens[i] \in {"BOGUS", ""})
             => parse.keys = {}

\* " ctrl +BOGUS+q " was parsed: the unrecognized token in the middle was
\* printed and the token after it contributed Q
C11_Witness ==
    /\ parse.returned
    /\ parse.tokens = <<" ctrl ", "BOGUS", "q ">>
    /\ parse.keys = {Group({"CTRL_LEFT", "CTRL_RIGHT"}), Single("Q")}
    /\ parse.printed = <<<<"B","O","G","U","S">>>>

(***************************************************************************)
(* C12: when an event fires a callback class, every handler registered for *)
(* that class with add_callback is invoked exactly once per registration,  *)
(* in registration order, within the on_input_event call, and no handler   *)
(* registered for another class is invoked; an event that fires no class   *)
(* invokes nothing; handlers are only appended to the registry, never      *)
(* removed or reordered.                                                   *)
(***************************************************************************)
\* a step of SpecBackend that is one event passed to a backend callback and
\* handled without an exception; last' holds the event
BackendEventTaken ==
    callbacks' = callbacks /\ backend' = backend /\ error' = "none"

\* seq is a prefix of longer
IsPrefix(seq, longer) ==
    Len(seq) <= Len(longer) /\ \A i \in 1..Len(seq) : seq[i] = longer[i]

C13_StopWaitsForCallbacks ==
    [][/\ (stopper # "returned" /\ stopper' = "returned") =>
              \A t \in Threads : h[t].pc = "idle"
       /\ stopper = "returned" =>
              \A t \in Threads :
                  (h[t].pc = "chain" /\ h'[t].pc = "idle") => last'.invoked = <<>>]_vars

(***************************************************************************)
(* C17: while stop() runs concurrently with the handling of a keyboard     *)
(* press or release, the handler never fails: it never uses a listener     *)
(* reference that stop() has already set to None.                          *)
(***************************************************************************)
C17_KeyboardHandlerNeverFails ==
    error # "'NoneType' object has no attribute 'canonical'"

(***************************************************************************)
(* C14: a key or button that has no entry in key_map never raises; it is   *)
(* translated to the default identity and delivered as a normal event, and *)
(* that event fires no callback, whatever the three chord definitions are. *)
(***************************************************************************)
\* the modelled keys and buttons without an entry in key_map
Unmapped == (RawKeys \cup RawButtons) \ {raw \in RawKeys \cup RawButtons :
                                            canonical(raw) \in DOMAIN create_key_map}

C14_UnmappedInputIsHarmless ==
    last.raw \in Unmapped =>
        /\ error = "none"
        /\ last.key = "SPACE"
        /\ last.triggered = <<>>

(***************************************************************************)
(* C15: in any sequence of start() and stop() calls, stop() on a backend   *)
(* that was never started or is already stopped raises nothing and changes *)
(* no backend state; stop() after start() stops the keyboard and the mouse *)
(* listener the backend refers to and sets both references to None.        *)
(***************************************************************************)
C15_StopClearsOrDoesNothing ==
    [][/\ error' # "'NoneType' object has no attribute 'stop'"
       /\ backend'.started = backend.started =>
             /\ (backend.keyboard_listener = None /\ backend.mouse_listener = None)
                    => backend' = backend
             /\ backend' # backend =>
                   /\ backend'.keyboard_listener = None
                   /\ backend'.mouse_listener = None
                   /\ backend'.running =
                         backend.running \ {<<"keyboard", backend.keyboard_listener>>,
                                            <<"mouse", backend.mouse_listener>>}
                   /\ backend'.key_map = backend.key_map]_vars

\* start() and then stop() were called twice each: both references are None
\* and no listener runs
C15_Witness ==
    /\ backend.started = 2
    /\ backend.keyboard_listener = None
    /\ backend.mouse_listener = None
    /\ backend.running = {}
    /\ error = "none"

(***************************************************************************)
(* C16: with keyboard and mouse events delivered on separate threads no    *)
(* activation is duplicated: between two firings of the same activation    *)
(* class its chord was inactive at some point, so the class fires at most  *)
(* once for each change of the chord from inactive to active.              *)
(***************************************************************************)
C16_NoDuplicateActivation ==
    [][\A t \in Threads, s \in SlotNames :
          (/\ h[t].pc = "chain"
           /\ h'[t].pc = "idle"
           /\ arbitrate(h[t].was_active, h[t].is_active) = <<ActivationClass(s)>>)
              => hist.armed[s]]_vars

(***************************************************************************)
(* C18: on every event before which at least one chord is active and after *)
(* which no chord is active, on_deactivate fires and is the only class     *)
(* that fires: no activation rule matches such an event; on_deactivate     *)
(* fires on no other event.                                                *)
(***************************************************************************)
\* some chord of chs is active
SomeActive(chs) == \E s \in SlotNames : is_active(chs[s])

\* no before/after combination with no chord active after matches an
\* activation rule
NoActivationOnAllInactive ==
    \A was \in [SlotNames -> BOOLEAN] :
        LET now == [s \in SlotNames |-> FALSE]
        IN arbitrate(was, now) =
               IF \E s \in SlotNames : was[s] THEN <<"on_deactivate">> ELSE <<>>

C18_DeactivateIffAllReleased ==
    [][EventStepTaken =>
          /\ NoActivationOnAllInactive
          /\ (SomeActive(chords) /\ ~SomeActive(chords'))
                 => last'.triggered = <<"on_deactivate">>
          /\ (\E i \in 1..Len(last'.triggered) : last'.triggered[i] = "on_deactivate")
                 => (SomeActive(chords) /\ ~SomeActive(chords'))]_vars

\* with the chords R, R+S and S, the release of R, before which the chord R
\* was active, left no chord active and fired on_deactivate
C18_Witness ==
    /\ config = CfgRS
    /\ LastIs("R", "KEY_RELEASE")
    /\ last.was_active["typing_only"]
    /\ \A s \in SlotNames : ~last.is_active[s]
    /\ last.triggered = <<"on_deactivate">>
    /\ ~SomeActive(chords)

(***************************************************************************)
(* C19: with events handled one at a time, no reload and three non-empty   *)
(* chord definitions, in every reachable state in which no chord is active *)
(* the callback class that fired most recently, if any has fired, is       *)
(* on_deactivate.                                                          *)
(***************************************************************************)
\* the three chord definitions are non-empty
AllNonEmpty(chs) == \A s \in SlotNames : chs[s].keys # {}

C19_IdleAfterDeactivate ==
    (reloads = 0 /\ AllNonEmpty(chords) /\ ~SomeActive(chords)
        /\ hist.fired.class # "none")
        => hist.fired.class = "on_deactivate"

\* with A, B and C: A was pressed and released, no chord is active and the
\* class fired most recently is on_deactivate
C19_Witness ==
    /\ reloads = 0
    /\ config = CfgABC
    /\ LastIs("A", "KEY_RELEASE")
    /\ last.was_active["typing_only"]
    /\ ~SomeActive(chords)
    /\ hist.fired.class = "on_deactivate"

(***************************************************************************)
(* C20: update_activation_keys invokes no callback, also when a chord that *)
(* was active before the reload is inactive after it; and while the three  *)
(* definitions are non-empty, every on_deactivate closes an activation     *)
(* fired after the latest reload: none fires for the activation that was   *)
(* open at reload time, neither at the reload nor when the keys held at    *)
(* reload time are released.                                               *)
(***************************************************************************)
\* the activation classes
ActivationClasses == {ActivationClass(s) : s \in SlotNames}

C20_ReloadSuppressesDeactivate ==
    [][/\ ReloadStepTaken =>
             /\ last' = last
             /\ hist'.fired = hist.fired
       /\ (/\ EventStepTaken
           /\ AllNonEmpty(chords)
           /\ \E i \in 1..Len(last'.triggered) : last'.triggered[i] = "on_deactivate")
              => /\ hist.fired.class \in ActivationClasses
                 /\ hist.fired.seen = {reloads}]_vars

\* R was pressed under R, R+S and S and fired on_activate_typing_only; the
\* reload to A, B and C left no chord active; the release of R was handled
\* by the new chords and fired nothing: the class fired most recently is
\* still the activation
C20_Witness ==
    /\ reloads = 1
    /\ config = CfgABC
    /\ LastIs("R", "KEY_RELEASE")
    /\ last.seen = {1}
    /\ last.triggered = <<>>
    /\ hist.fired = [class |-> "on_activate_typing_only", seen |-> {0}]
    /\ AllNonEmpty(chords)
    /\ ~SomeActive(chords)

(***************************************************************************)
(* C21: while at least one of the three chord definitions is empty, no     *)
(* event fires on_deactivate, and no event fires the activation class of a *)
(* chord whose definition is empty.                                        *)
(***************************************************************************)
\* the classes of triggered
ClassesOf(triggered) == {triggered[i] : i \in 1..Len(triggered)}

C21_EmptyDefinitionDisables ==
    [][(EventStepTaken /\ \E s \in SlotNames : chords[s].keys = {}) =>
          /\ "on_deactivate" \notin ClassesOf(last'.triggered)
          /\ \A s \in SlotNames :
                chords[s].keys = {} =>
                    ActivationClass(s) \notin ClassesOf(last'.triggered)]_vars

\* with "", "R" and "S": the release of R made the chord R, the only one
\* with keys held, inactive and fired nothing
C21_Witness ==
    /\ reloads = 0
    /\ config = CfgNoTyping
    /\ LastIs("R", "KEY_RELEASE")
    /\ last.was_active["typing_and_clipboard"]
    /\ ~last.is_active["typing_and_clipboard"]
    /\ ~last.is_active["clipboard_only"]
    /\ last.triggered = <<>>

(***************************************************************************)
(* C22: a press never makes a chord go from active to inactive and a       *)
(* release never makes a chord go from inactive to active; so activation   *)
(* classes fire only on presses, on_deactivate fires only on releases, and *)
(* no event makes one chord active and another inactive.                   *)
(***************************************************************************)
\* the chords that an event step makes active, and those it makes inactive
Rising == {s \in SlotNames : ~is_active(chords[s]) /\ is_active(chords'[s])}
Falling == {s \in SlotNames : is_active(chords[s]) /\ ~is_active(chords'[s])}

C22_PressRaisesReleaseLowers ==
    [][EventStepTaken =>
          /\ Rising # {} => last'.event_type = "KEY_PRESS"
          /\ Falling # {} => last'.event_type = "KEY_RELEASE"
          /\ ClassesOf(last'.triggered) \cap ActivationClasses # {}
                 => last'.event_type = "KEY_PRESS"
          /\ "on_deactivate" \in ClassesOf(last'.triggered)
                 => last'.event_type = "KEY_RELEASE"
          /\ Rising = {} \/ Falling = {}]_vars

\* with R, R+S and S: the press of S, R being held, made two chords active
\* and none inactive and fired an activation class
C22_Witness ==
    /\ config = CfgRS
    /\ LastIs("S", "KEY_PRESS")
    /\ last.was_active = [s \in SlotNames |-> s = "typing_only"]
    /\ last.is_active = [s \in SlotNames |-> TRUE]
    /\ last.triggered = <<"on_activate_typing_and_clipboard">>

(***************************************************************************)
(* C23: an event that leaves the pressed sets unchanged fires no callback  *)
(* and changes no chord's activity; such are the press of an identity that *)
(* is already pressed, the release of an identity that is not pressed, and *)
(* every event of kind MOUSE_PRESS or MOUSE_RELEASE.                       *)
(***************************************************************************)
\* the pressed sets of the chords
PressedSets(chs) == [s \in SlotNames |-> chs[s].pressed_keys]

C23_UnchangedPressedSetFiresNothing ==
    [][EventStepTaken =>
          /\ PressedSets(chords') = PressedSets(chords) =>
                /\ last'.triggered = <<>>
                /\ Active(chords') = Active(chords)
                /\ last'.is_active = last'.was_active
          /\ (\/ last' # last /\ last'.event_type \in {"MOUSE_PRESS", "MOUSE_RELEASE"}
              \/ /\ last' # last
                 /\ last'.event_type = "KEY_PRESS"
                 /\ \A s \in SlotNames : last'.key \in chords[s].pressed_keys
              \/ /\ last' # last
                 /\ last'.event_type = "KEY_RELEASE"
                 /\ \A s \in SlotNames : last'.key \notin chords[s].pressed_keys)
                => PressedSets(chords') = PressedSets(chords)]_vars

\* with R, R+S and S: R was held and its chord active when a second press of
\* R arrived; it fired nothing
C23_Witness ==
    /\ config = CfgRS
    /\ LastIs("R", "KEY_PRESS")
    /\ last.was_active["typing_only"]
    /\ last.is_active["typing_only"]
    /\ last.triggered = <<>>
    /\ PressedIs(chords, {"R"})

(***************************************************************************)
(* C24: with events handled one at a time, the three chords hold the same  *)
(* pressed set after construction, after every reload and after every      *)
(* event: each event is applied to all three chords, whether or not their  *)
(* definitions mention its key.                                            *)
(***************************************************************************)
C24_IdenticalPressedSets ==
    \A s \in SlotNames, t \in SlotNames :
        chords[s].pressed_keys = chords[t].pressed_keys

\* with A, B and C after a reload: A is held, and the chords B and C, whose
\* definitions do not mention A, hold it too
C24_Witness ==
    /\ reloads = 1
    /\ config = CfgABC
    /\ PressedIs(chords, {"A"})
    /\ \A s \in SlotNames : chords[s].gen = 1

=============================================================================
